---- MODULE Spec2Model ----
(***************************************************************************)
(* Model of app.py, a Streamlit page with three calculators:               *)
(*   tab1  Frequentist A/B test      (src/app.py 54-189)                    *)
(*   tab2  Bayesian A/B test         (src/app.py 194-249)                   *)
(*   tab3  Sample size calculator    (src/app.py 254-313)                   *)
(*                                                                         *)
(* Streamlit re-executes the whole script on every interaction.  The state *)
(* that survives from one run to the next is the value of each widget; a   *)
(* button is True only in the run its click triggered.  One action of the  *)
(* model is one such run: the interaction (a widget edit or a button       *)
(* click) followed by the execution of the script from line 1 to the end   *)
(* or to the first uncaught exception.                                     *)
(*                                                                         *)
(* Python floats are modelled in fixed point.  A rate, a standard error, a *)
(* z score and a confidence bound are integers in units of 1/Scale; a      *)
(* probability is an integer in units of 1/PScale.  Division truncates     *)
(* toward zero, so that f(-x) = -f(x) as in IEEE arithmetic.               *)
(***************************************************************************)
EXTENDS Integers, Sequences, FiniteSets, TLC

(***************************************************************************)
(* Bounds of the model.                                                    *)
(***************************************************************************)
MaxVisitors == 4
MaxConversions == 4
MaxBaselineSteps == 20
MaxMdePct == 100
MaxWins == 2

Scale == 10000
PScale == 1000000

Abs(x) == IF x < 0 THEN -x ELSE x

\* float division x / y for y # 0, truncated toward zero
TDiv(x, y) ==
    IF (x >= 0) = (y > 0) THEN Abs(x) \div Abs(y) ELSE -(Abs(x) \div Abs(y))

RECURSIVE SqrtSearch(_, _, _)
SqrtSearch(x, lo, hi) ==
    IF lo >= hi THEN lo
    ELSE LET mid == (lo + hi + 1) \div 2
         IN  IF mid * mid <= x THEN SqrtSearch(x, mid, hi)
             ELSE SqrtSearch(x, lo, mid - 1)

\* math.sqrt of a value in units of 1/Scale^2, result in units of 1/Scale
Sqrt(x) == SqrtSearch(x, 0, 46340)

(***************************************************************************)
(* scipy.stats.norm.cdf: the standard normal CDF at z = 0.00, 0.01, ...,   *)
(* 5.01, in units of 1/PScale, interpolated linearly in between.           *)
(***************************************************************************)
NormCdfTable == <<
    500000, 503989, 507978, 511966, 515953, 519939, 523922, 527903, 531881, 535856,
    539828, 543795, 547758, 551717, 555670, 559618, 563559, 567495, 571424, 575345,
    579260, 583166, 587064, 590954, 594835, 598706, 602568, 606420, 610261, 614092,
    617911, 621720, 625516, 629300, 633072, 636831, 640576, 644309, 648027, 651732,
    655422, 659097, 662757, 666402, 670031, 673645, 677242, 680822, 684386, 687933,
    691462, 694974, 698468, 701944, 705401, 708840, 712260, 715661, 719043, 722405,
    725747, 729069, 732371, 735653, 738914, 742154, 745373, 748571, 751748, 754903,
    758036, 761148, 764238, 767305, 770350, 773373, 776373, 779350, 782305, 785236,
    788145, 791030, 793892, 796731, 799546, 802337, 805105, 807850, 810570, 813267,
    815940, 818589, 821214, 823814, 826391, 828944, 831472, 833977, 836457, 838913,
    841345, 843752, 846136, 848495, 850830, 853141, 855428, 857690, 859929, 862143,
    864334, 866500, 868643, 870762, 872857, 874928, 876976, 879000, 881000, 882977,
    884930, 886861, 888768, 890651, 892512, 894350, 896165, 897958, 899727, 901475,
    903200, 904902, 906582, 908241, 909877, 911492, 913085, 914657, 916207, 917736,
    919243, 920730, 922196, 923641, 925066, 926471, 927855, 929219, 930563, 931888,
    933193, 934478, 935745, 936992, 938220, 939429, 940620, 941792, 942947, 944083,
    945201, 946301, 947384, 948449, 949497, 950529, 951543, 952540, 953521, 954486,
    955435, 956367, 957284, 958185, 959070, 959941, 960796, 961636, 962462, 963273,
    964070, 964852, 965620, 966375, 967116, 967843, 968557, 969258, 969946, 970621,
    971283, 971933, 972571, 973197, 973810, 974412, 975002, 975581, 976148, 976705,
    977250, 977784, 978308, 978822, 979325, 979818, 980301, 980774, 981237, 981691,
    982136, 982571, 982997, 983414, 983823, 984222, 984614, 984997, 985371, 985738,
    986097, 986447, 986791, 987126, 987455, 987776, 988089, 988396, 988696, 988989,
    989276, 989556, 989830, 990097, 990358, 990613, 990863, 991106, 991344, 991576,
    991802, 992024, 992240, 992451, 992656, 992857, 993053, 993244, 993431, 993613,
    993790, 993963, 994132, 994297, 994457, 994614, 994766, 994915, 995060, 995201,
    995339, 995473, 995604, 995731, 995855, 995975, 996093, 996207, 996319, 996427,
    996533, 996636, 996736, 996833, 996928, 997020, 997110, 997197, 997282, 997365,
    997445, 997523, 997599, 997673, 997744, 997814, 997882, 997948, 998012, 998074,
    998134, 998193, 998250, 998305, 998359, 998411, 998462, 998511, 998559, 998605,
    998650, 998694, 998736, 998777, 998817, 998856, 998893, 998930, 998965, 998999,
    999032, 999065, 999096, 999126, 999155, 999184, 999211, 999238, 999264, 999289,
    999313, 999336, 999359, 999381, 999402, 999423, 999443, 999462, 999481, 999499,
    999517, 999534, 999550, 999566, 999581, 999596, 999610, 999624, 999638, 999651,
    999663, 999675, 999687, 999698, 999709, 999720, 999730, 999740, 999749, 999758,
    999767, 999776, 999784, 999792, 999800, 999807, 999815, 999822, 999828, 999835,
    999841, 999847, 999853, 999858, 999864, 999869, 999874, 999879, 999883, 999888,
    999892, 999896, 999900, 999904, 999908, 999912, 999915, 999918, 999922, 999925,
    999928, 999931, 999933, 999936, 999938, 999941, 999943, 999946, 999948, 999950,
    999952, 999954, 999956, 999958, 999959, 999961, 999963, 999964, 999966, 999967,
    999968, 999970, 999971, 999972, 999973, 999974, 999975, 999976, 999977, 999978,
    999979, 999980, 999981, 999982, 999983, 999983, 999984, 999985, 999985, 999986,
    999987, 999987, 999988, 999988, 999989, 999989, 999990, 999990, 999991, 999991,
    999991, 999992, 999992, 999993, 999993, 999993, 999993, 999994, 999994, 999994,
    999995, 999995, 999995, 999995, 999996, 999996, 999996, 999996, 999996, 999996,
    999997, 999997, 999997, 999997, 999997, 999997, 999997, 999998, 999998, 999998,
    999998, 999998, 999998, 999998, 999998, 999998, 999998, 999998, 999999, 999999,
    999999, 999999, 999999, 999999, 999999, 999999, 999999, 999999, 999999, 999999,
    999999, 999999, 999999, 999999, 999999, 999999, 999999, 999999, 999999, 999999,
    1000000, 1000000, 1000000, 1000000, 1000000, 1000000, 1000000, 1000000, 1000000, 1000000,
    1000000, 1000000
>>

NormCdfPos(z) ==
    LET i    == (z * 100) \div Scale
        frac == (z * 100) % Scale
    IN  IF i >= 500 THEN PScale
        ELSE NormCdfTable[i + 1]
             + ((NormCdfTable[i + 2] - NormCdfTable[i + 1]) * frac) \div Scale

norm_cdf(z) == IF z >= 0 THEN NormCdfPos(z) ELSE PScale - NormCdfPos(-z)

(***************************************************************************)
(* What a calculator leaves on the page after a run.                       *)
(***************************************************************************)
NoOutput == [kind |-> "none"]
Exception(type, line) == [kind |-> "exception", type |-> type, line |-> line]

(***************************************************************************)
(* tab1: the computation behind "Analyze Experiment" (src/app.py 81-128).  *)
(***************************************************************************)

\* line 85: se = math.sqrt(pooled * (1 - pooled) * (1/visitors_a + 1/visitors_b))
StandardError(pooled, n_a, n_b) ==
    Sqrt(TDiv(pooled * (Scale - pooled), Scale)
         * (TDiv(Scale, n_a) + TDiv(Scale, n_b)))

ZScore_Swapped(cr_a, cr_b, se) == TDiv((cr_b + cr_a) * Scale, se)

\* line 87: z = (cr_b - cr_a) / se
ZScore(cr_a, cr_b, se) == TDiv((cr_b - cr_a) * Scale, se)

PValue_AlwaysOneTailed(tt, z) == PScale - norm_cdf(z)

\* lines 89-92
PValue(tt, z) ==
    IF tt = "Two-tailed" THEN 2 * (PScale - norm_cdf(Abs(z)))
    ELSE PScale - norm_cdf(z)

\* line 94: lift = (cr_b - cr_a) / cr_a * 100
Lift(cr_a, cr_b) == TDiv((cr_b - cr_a) * Scale, cr_a) * 100

ConfidenceInterval_SameSign(delta, se) ==
    [low |-> delta - TDiv(196 * se, 100), high |-> delta - TDiv(196 * se, 100)]

ConfidenceInterval_Reversed(delta, se) ==
    [low |-> delta + TDiv(196 * se, 100), high |-> delta - TDiv(196 * se, 100)]

\* lines 96-97: ci_low, ci_high = (cr_b - cr_a) -/+ 1.96 * se
ConfidenceInterval(delta, se) ==
    [low |-> delta - TDiv(196 * se, 100), high |-> delta + TDiv(196 * se, 100)]

\* lines 81-128.  The first statement that raises ends the computation:
\*   line 85 raises ValueError (math domain error) when the radicand is
\*           negative, that is when pooled > 1;
\*   line 87 raises ZeroDivisionError when se = 0.0;
\*   line 94 raises ZeroDivisionError when cr_a = 0.0.
\* Nothing is written to the page before line 99, so a run that raises
\* shows none of the values computed before the exception.
Frequentist(tt, n_a, c_a, n_b, c_b) ==
    LET cr_a   == TDiv(c_a * Scale, n_a)
        cr_b   == TDiv(c_b * Scale, n_b)
        pooled == TDiv((c_a + c_b) * Scale, n_a + n_b)
    IN  IF pooled > Scale THEN Exception("ValueError", 85)
        ELSE LET se == StandardError(pooled, n_a, n_b)
             IN  IF se = 0 THEN Exception("ZeroDivisionError", 87)
                 ELSE IF cr_a = 0 THEN Exception("ZeroDivisionError", 94)
                 ELSE LET z       == ZScore(cr_a, cr_b, se)
                          p_value == PValue(tt, z)
                          ci      == ConfidenceInterval(cr_b - cr_a, se)
                      IN  [kind        |-> "result",
                           cr_a        |-> cr_a,
                           cr_b        |-> cr_b,
                           se          |-> se,
                           z           |-> z,
                           p_value     |-> p_value,
                           lift        |-> Lift(cr_a, cr_b),
                           ci_low      |-> ci.low,
                           ci_high     |-> ci.high,
                           significant |-> p_value < (5 * PScale) \div 100]

(***************************************************************************)
(* The SHIP / ITERATE / STOP rule of the toolkit's decision step.  app.py  *)
(* stops at the p_value < 0.05 branch of lines 117-128 and has no such     *)
(* step; the rule is taken from section 4.1 (8) of the specification.      *)
(***************************************************************************)
Decision(ci_low, ci_high, p_value) ==
    IF ci_low > 0 /\ p_value < (5 * PScale) \div 100 THEN "SHIP"
    ELSE IF ci_high > 0 THEN "ITERATE"
    ELSE "STOP"

(***************************************************************************)
(* tab2: the computation behind "Run Bayesian Analysis" (lines 213-223).   *)
(* beta.rvs raises ValueError (domain error) for a parameter <= 0.  The    *)
(* draws are random: wins, the number of indices with samples_b >          *)
(* samples_a, is an input of the operator, chosen by the action.           *)
(***************************************************************************)
samples == 100000

\* the values of wins the model distinguishes
WinCounts == {(k * samples) \div MaxWins : k \in 0..MaxWins}

Bayesian(n_a, c_a, n_b, c_b, wins) ==
    LET alpha_a == c_a + 1
        beta_a  == n_a - c_a + 1
        alpha_b == c_b + 1
        beta_b  == n_b - c_b + 1
    IN  IF beta_a <= 0 THEN Exception("ValueError", 217)
        ELSE IF beta_b <= 0 THEN Exception("ValueError", 218)
        ELSE [kind    |-> "result",
              alpha_a |-> alpha_a, beta_a |-> beta_a,
              alpha_b |-> alpha_b, beta_b |-> beta_b,
              \* prob_b_better in units of 1/PScale
              prob_b_better |-> wins * (PScale \div samples)]

(***************************************************************************)
(* tab3: the computation behind "Calculate Sample Size" (lines 274-290).   *)
(* The two number inputs hold percentages; the model takes them as whole   *)
(* numbers of percent, b and m.  Then, exactly,                            *)
(*     p1 = b/100      p2 = b(100+m)/10^4      pooled = b(200+m)/(2*10^4)  *)
(*     p2 - p1 = b*m/10^4                                                  *)
(*     n  = 2*pooled*(1-pooled)*(z_alpha+z_beta)^2 / (p2-p1)^2             *)
(*        = (200+m) * (20000 - b(200+m)) * (z_alpha+z_beta)^2 / (2*b*m^2)  *)
(***************************************************************************)

\* line 277: norm.ppf(1 - alpha/2), in units of 1/Scale
z_alpha(conf) ==
    CASE conf = 90 -> 16449
      [] conf = 95 -> 19600
      [] conf = 99 -> 25758

\* line 278: norm.ppf(1 - beta_val), in units of 1/Scale
z_beta(pw) ==
    CASE pw = 80 -> 8416
      [] pw = 90 -> 12816

\* line 287: (z_alpha + z_beta) ** 2, in units of 1/100
ZSumSq(conf, pw) ==
    ((z_alpha(conf) + z_beta(pw)) * (z_alpha(conf) + z_beta(pw)))
        \div ((Scale * Scale) \div 100)

\* quotient and remainder of a*z by d for a, z >= 0 and d > 0, computed
\* bit by bit on z so that no intermediate value leaves 32 bits
RECURSIVE MulDiv(_, _, _)
MulDiv(a, z, d) ==
    IF z = 0 THEN [q |-> 0, r |-> 0]
    ELSE LET h  == MulDiv(a, z \div 2, d)
             q2 == 2 * h.q + (2 * h.r) \div d
             r2 == (2 * h.r) % d
             r3 == IF z % 2 = 1 THEN r2 + (a % d) ELSE r2
             q3 == IF z % 2 = 1 THEN q2 + (a \div d) ELSE q2
         IN  [q |-> q3 + r3 \div d, r |-> r3 % d]

\* math.ceil(num * z / d) for d > 0, z >= 0
CeilMulDiv(num, z, d) ==
    LET h == MulDiv(Abs(num), z, d)
    IN  IF num >= 0 THEN h.q + (IF h.r > 0 THEN 1 ELSE 0)
        ELSE -h.q

\* line 283 as a sign: pooled compared with 1
PooledAboveOne(b, m) == b * (200 + m) > 20000

\* the same with pooled = p1 + p2 instead of (p1 + p2) / 2
RequiredN_NoHalf(b, m, conf, pw) ==
    CeilMulDiv(2 * (200 + m) * (10000 - b * (200 + m)), ZSumSq(conf, pw),
               b * m * m * 100)

\* lines 280-290: math.ceil(n)
RequiredN(b, m, conf, pw) ==
    CeilMulDiv((200 + m) * (20000 - b * (200 + m)), ZSumSq(conf, pw),
               2 * b * m * m * 100)

\* line 288 raises ZeroDivisionError when (p2 - p1) ** 2 = 0.0
SampleSize(b, m, conf, pw) ==
    IF b * m = 0 THEN Exception("ZeroDivisionError", 285)
    ELSE [kind |-> "result", n |-> RequiredN(b, m, conf, pw)]

(***************************************************************************)
(* State.                                                                  *)
(*   widget values, kept by Streamlit from one run to the next:            *)
(*     tab1: test_type and the four number inputs of lines 72-78           *)
(*     tab2: the number inputs with keys "ba", "ca", "bb", "cb"            *)
(*     tab3: baseline and mde (in percent), confidence, power              *)
(*   visitors_a .. conversions_b: the script's names of lines 72-78,       *)
(*     bound again at lines 205-210, as the last run left them             *)
(*   out1, out2, out3: what the last run put under each button             *)
(*   halted: the tab in which the last run raised (0: it ran to the end)   *)
(***************************************************************************)
VARIABLES test_type, tab1_visitors_a, tab1_conversions_a,
          tab1_visitors_b, tab1_conversions_b,
          key_ba, key_ca, key_bb, key_cb,
          baseline, mde, confidence, power,
          visitors_a, conversions_a, visitors_b, conversions_b,
          out1, out2, out3, halted

tab1 == <<test_type, tab1_visitors_a, tab1_conversions_a,
          tab1_visitors_b, tab1_conversions_b>>
tab2 == <<key_ba, key_ca, key_bb, key_cb>>
tab3 == <<baseline, mde, confidence, power>>
names == <<visitors_a, conversions_a, visitors_b, conversions_b>>
vars == <<tab1, tab2, tab3, names, out1, out2, out3, halted>>

\* st.radio options, line 64
TestTypes == {"Two-tailed", "One-tailed"}
\* st.number_input(min_value=1) and (min_value=0): no upper limit, and no
\* relation between visitors and conversions, is enforced by the widgets
Visitors == 1..MaxVisitors
Conversions == 0..MaxConversions
\* st.number_input of lines 262-268: no limits; whole percents here
Baselines == {5 * k : k \in 0..MaxBaselineSteps}
Mdes == 0..MaxMdePct
\* st.selectbox options, lines 270-271
Confidences == {90, 95, 99}
Powers == {80, 90}

(***************************************************************************)
(* One execution of the script.  button is the button whose click caused   *)
(* the run ("" for a widget edit); the widget values are those after the   *)
(* interaction (primed).  wins resolves the random draws of tab2.          *)
(***************************************************************************)
BindTab1_Stale ==
    [visitors_a |-> visitors_a, conversions_a |-> conversions_a,
     visitors_b |-> visitors_b, conversions_b |-> conversions_b]

\* lines 72-78
BindTab1 ==
    [visitors_a |-> tab1_visitors_a', conversions_a |-> tab1_conversions_a',
     visitors_b |-> tab1_visitors_b', conversions_b |-> tab1_conversions_b']

\* lines 205-210
BindTab2 ==
    [visitors_a |-> key_ba', conversions_a |-> key_ca',
     visitors_b |-> key_bb', conversions_b |-> key_cb']

RunScript(button, wins) ==
    LET n1 == BindTab1
        r1 == IF button = "Analyze Experiment"
              THEN Frequentist(test_type', n1.visitors_a, n1.conversions_a,
                               n1.visitors_b, n1.conversions_b)
              ELSE NoOutput
        n2 == BindTab2
        r2 == IF button = "Run Bayesian Analysis"
              THEN Bayesian(n2.visitors_a, n2.conversions_a,
                            n2.visitors_b, n2.conversions_b, wins)
              ELSE NoOutput
        r3 == IF button = "Calculate Sample Size"
              THEN SampleSize(baseline', mde', confidence', power')
              ELSE NoOutput
        last == IF r1.kind = "exception" THEN n1 ELSE n2
    IN  /\ out1' = r1
        /\ out2' = IF r1.kind = "exception" THEN NoOutput ELSE r2
        /\ out3' = IF r1.kind = "exception" \/ r2.kind = "exception"
                   THEN NoOutput ELSE r3
        /\ halted' = IF r1.kind = "exception" THEN 1
                     ELSE IF r2.kind = "exception" THEN 2
                     ELSE IF r3.kind = "exception" THEN 3
                     ELSE 0
        /\ visitors_a' = last.visitors_a
        /\ conversions_a' = last.conversions_a
        /\ visitors_b' = last.visitors_b
        /\ conversions_b' = last.conversions_b

\* the widgets of a tab are on the page when the last run reached them
Tab2OnPage == halted # 1
Tab3OnPage == halted \notin {1, 2}

(***************************************************************************)
(* Interactions.  Editing a widget to a new value reruns the script with   *)
(* every button False; a click reruns it with that button True.  S is the  *)
(* set of values the edit chooses from.                                    *)
(***************************************************************************)
SetTestType ==
    /\ \E t \in TestTypes \ {test_type} : test_type' = t
    /\ UNCHANGED <<tab1_visitors_a, tab1_conversions_a, tab1_visitors_b,
                   tab1_conversions_b, tab2, tab3>>
    /\ RunScript("", 0)

SetVisitorsA(S) ==
    /\ \E v \in S \ {tab1_visitors_a} : tab1_visitors_a' = v
    /\ UNCHANGED <<test_type, tab1_conversions_a, tab1_visitors_b,
                   tab1_conversions_b, tab2, tab3>>
    /\ RunScript("", 0)

SetConversionsA(S) ==
    /\ \E v \in S \ {tab1_conversions_a} : tab1_conversions_a' = v
    /\ UNCHANGED <<test_type, tab1_visitors_a, tab1_visitors_b,
                   tab1_conversions_b, tab2, tab3>>
    /\ RunScript("", 0)

SetVisitorsB(S) ==
    /\ \E v \in S \ {tab1_visitors_b} : tab1_visitors_b' = v
    /\ UNCHANGED <<test_type, tab1_visitors_a, tab1_conversions_a,
                   tab1_conversions_b, tab2, tab3>>
    /\ RunScript("", 0)

SetConversionsB(S) ==
    /\ \E v \in S \ {tab1_conversions_b} : tab1_conversions_b' = v
    /\ UNCHANGED <<test_type, tab1_visitors_a, tab1_conversions_a,
                   tab1_visitors_b, tab2, tab3>>
    /\ RunScript("", 0)

\* line 80
ClickAnalyze ==
    /\ UNCHANGED <<tab1, tab2, tab3>>
    /\ RunScript("Analyze Experiment", 0)

SetKeyBa(S) ==
    /\ Tab2OnPage
    /\ \E v \in S \ {key_ba} : key_ba' = v
    /\ UNCHANGED <<tab1, key_ca, key_bb, key_cb, tab3>>
    /\ RunScript("", 0)

SetKeyCa(S) ==
    /\ Tab2OnPage
    /\ \E v \in S \ {key_ca} : key_ca' = v
    /\ UNCHANGED <<tab1, key_ba, key_bb, key_cb, tab3>>
    /\ RunScript("", 0)

SetKeyBb(S) ==
    /\ Tab2OnPage
    /\ \E v \in S \ {key_bb} : key_bb' = v
    /\ UNCHANGED <<tab1, key_ba, key_ca, key_cb, tab3>>
    /\ RunScript("", 0)

SetKeyCb(S) ==
    /\ Tab2OnPage
    /\ \E v \in S \ {key_cb} : key_cb' = v
    /\ UNCHANGED <<tab1, key_ba, key_ca, key_bb, tab3>>
    /\ RunScript("", 0)

\* line 212
ClickBayes ==
    /\ Tab2OnPage
    /\ UNCHANGED <<tab1, tab2, tab3>>
    /\ \E wins \in WinCounts : RunScript("Run Bayesian Analysis", wins)

SetBaseline(S) ==
    /\ Tab3OnPage
    /\ \E v \in S \ {baseline} : baseline' = v
    /\ UNCHANGED <<tab1, tab2, mde, confidence, power>>
    /\ RunScript("", 0)

SetMde(S) ==
    /\ Tab3OnPage
    /\ \E v \in S \ {mde} : mde' = v
    /\ UNCHANGED <<tab1, tab2, baseline, confidence, power>>
    /\ RunScript("", 0)

SetConfidence ==
    /\ Tab3OnPage
    /\ \E v \in Confidences \ {confidence} : confidence' = v
    /\ UNCHANGED <<tab1, tab2, baseline, mde, power>>
    /\ RunScript("", 0)

SetPower ==
    /\ Tab3OnPage
    /\ \E v \in Powers \ {power} : power' = v
    /\ UNCHANGED <<tab1, tab2, baseline, mde, confidence>>
    /\ RunScript("", 0)

\* line 273
ClickSize ==
    /\ Tab3OnPage
    /\ UNCHANGED <<tab1, tab2, tab3>>
    /\ RunScript("Calculate Sample Size", 0)

(***************************************************************************)
(* Specifications.  Every initial state is a page as a run without a click *)
(* leaves it: no output, the names bound to the tab2 inputs.               *)
(***************************************************************************)
Rendered ==
    /\ visitors_a = key_ba /\ conversions_a = key_ca
    /\ visitors_b = key_bb /\ conversions_b = key_cb
    /\ out1 = NoOutput /\ out2 = NoOutput /\ out3 = NoOutput
    /\ halted = 0

\* the values a session moves its inputs through
SessionVisitors == 1..2
SessionConversions == 0..2
SessionBaselines == {5, 50, 100}
SessionMdes == {0, 10, 20}

\* a session over the three calculators
Init ==
    /\ test_type = "Two-tailed"
    /\ tab1_visitors_a = 1 /\ tab1_conversions_a = 1
    /\ tab1_visitors_b = 1 /\ tab1_conversions_b = 1
    /\ key_ba = 1 /\ key_ca = 0 /\ key_bb = 1 /\ key_cb = 0
    /\ baseline = 5 /\ mde = 10 /\ confidence = 95 /\ power = 80
    /\ Rendered

Next ==
    \/ SetTestType
    \/ SetConversionsA(SessionConversions)
    \/ SetConversionsB(SessionConversions)
    \/ ClickAnalyze
    \/ SetKeyBa(SessionVisitors)
    \/ SetKeyCa(SessionConversions)
    \/ SetKeyBb(SessionVisitors)
    \/ SetKeyCb(SessionConversions)
    \/ ClickBayes
    \/ SetBaseline(SessionBaselines)
    \/ SetMde(SessionMdes)
    \/ ClickSize

Spec == Init /\ [][Next]_vars

\* the frequentist calculator over all its inputs
InitFreq ==
    /\ test_type \in TestTypes
    /\ tab1_visitors_a \in Visitors /\ tab1_conversions_a \in Conversions
    /\ tab1_visitors_b \in Visitors /\ tab1_conversions_b \in Conversions
    /\ key_ba = 1 /\ key_ca = 0 /\ key_bb = 1 /\ key_cb = 0
    /\ baseline = 5 /\ mde = 10 /\ confidence = 95 /\ power = 80
    /\ Rendered

NextFreq ==
    \/ SetTestType
    \/ SetVisitorsA(Visitors)
    \/ SetConversionsA(Conversions)
    \/ SetVisitorsB(Visitors)
    \/ SetConversionsB(Conversions)
    \/ ClickAnalyze

SpecFreq == InitFreq /\ [][NextFreq]_vars

\* the sample size calculator over all its inputs
InitSize ==
    /\ test_type = "Two-tailed"
    /\ tab1_visitors_a = 1 /\ tab1_conversions_a = 1
    /\ tab1_visitors_b = 1 /\ tab1_conversions_b = 1
    /\ key_ba = 1 /\ key_ca = 0 /\ key_bb = 1 /\ key_cb = 0
    /\ baseline \in Baselines /\ mde \in Mdes
    /\ confidence \in Confidences /\ power \in Powers
    /\ Rendered

NextSize ==
    \/ SetBaseline(Baselines)
    \/ SetMde(Mdes)
    \/ SetConfidence
    \/ SetPower
    \/ ClickSize

SpecSize == InitSize /\ [][NextSize]_vars

(***************************************************************************)
(* Vocabulary of the properties.                                           *)
(***************************************************************************)

\* a VariantObservation: visitors >= 1, 0 <= conversions <= visitors
ValidObservation(n, c) == n >= 1 /\ 0 <= c /\ c <= n

Tab1Valid ==
    /\ ValidObservation(tab1_visitors_a, tab1_conversions_a)
    /\ ValidObservation(tab1_visitors_b, tab1_conversions_b)

Tab2Valid ==
    /\ ValidObservation(key_ba, key_ca)
    /\ ValidObservation(key_bb, key_cb)

\* a SampleSizeInput: baseline_rate and mde_relative in (0, 1]
Tab3Valid == baseline \in 1..100 /\ mde \in 1..100

\* the typed failure results of the error taxonomy
InvalidInput == [kind |-> "failure", type |-> "InvalidInput"]
DivisionByZero == [kind |-> "failure", type |-> "DivisionByZero"]

\* the frequentist calculator applied to the inputs now in tab1
Tab1Outcome ==
    Frequentist(test_type, tab1_visitors_a, tab1_conversions_a,
                tab1_visitors_b, tab1_conversions_b)

\* the frequentist calculator on other conversions, same visitors and mode
Tab1With(c_a, c_b) ==
    Frequentist(test_type, tab1_visitors_a, c_a, tab1_visitors_b, c_b)

\* (cr_b - cr_a) * visitors_a * visitors_b, exact
DeltaTimesVisitors(c_a, c_b) == c_b * tab1_visitors_a - c_a * tab1_visitors_b

OtherTestType == IF test_type = "Two-tailed" THEN "One-tailed" ELSE "Two-tailed"

(***************************************************************************)
(* C1.  Every frequentist or Bayesian invocation whose input has           *)
(* conversions > visitors for a variant ends in the InvalidInput failure,  *)
(* and nothing is computed from that input.                                *)
(* app.py validates nothing: the invocation ends in a result or in an      *)
(* uncaught exception of the computation.                                  *)
(***************************************************************************)
C1_InvalidInputRejected ==
    /\ (out1.kind # "none" /\ ~Tab1Valid) => out1 = InvalidInput
    /\ (out2.kind # "none" /\ ~Tab2Valid) => out2 = InvalidInput

(***************************************************************************)
(* C2.  Every zero-denominator case ends in a DivisionByZero failure       *)
(* value: the frequentist test when the pooled rate is 0 or 1, the sample  *)
(* size calculator when mde_relative = 0.  Never an uncaught exception.    *)
(***************************************************************************)
C2_DivisionByZeroReported ==
    /\ ( /\ out1.kind # "none"
         /\ Tab1Valid
         /\ tab1_conversions_a + tab1_conversions_b
              \in {0, tab1_visitors_a + tab1_visitors_b} )
       => out1 = DivisionByZero
    /\ (out3.kind # "none" /\ baseline \in 1..100 /\ mde = 0)
       => out3 = DivisionByZero

(***************************************************************************)
(* C3.  With conversions_a = 0 and conversions_b > 0 the frequentist test  *)
(* still produces z_score, p_value, ci_low and ci_high; only the relative  *)
(* lift is undefined.                                                      *)
(***************************************************************************)
C3_LiftUndefinedOnly ==
    ( /\ out1.kind # "none"
      /\ Tab1Valid
      /\ tab1_conversions_a = 0 /\ tab1_conversions_b > 0 )
    => out1.kind = "result"

(***************************************************************************)
(* C4.  For valid inputs with equal visitors and equal conversions the     *)
(* two-tailed test returns z = 0, p_value = 1, lift_pct = 0.               *)
(***************************************************************************)
C4_EqualVariants ==
    /\ out1.kind # "none"
    /\ Tab1Valid
    /\ test_type = "Two-tailed"
    /\ tab1_visitors_a = tab1_visitors_b
    /\ tab1_conversions_a = tab1_conversions_b

\* C4 as stated: also at conversions = 0 and conversions = visitors, and
\* with decision = STOP
C4_Original ==
    C4_EqualVariants =>
        /\ out1.kind = "result"
        /\ out1.z = 0 /\ out1.p_value = PScale /\ out1.lift = 0
        /\ Decision(out1.ci_low, out1.ci_high, out1.p_value) = "STOP"

\* C4 amended: for 0 < conversions < visitors the result has z = 0,
\* p_value = 1, lift_pct = 0 and ci_low < 0 < ci_high, which the decision
\* rule labels ITERATE; for conversions = 0 and conversions = visitors the
\* standard error is 0 and the division of line 87 fails: no result
C4_EqualVariantsIterate ==
    C4_EqualVariants =>
        IF 0 < tab1_conversions_a /\ tab1_conversions_a < tab1_visitors_a
        THEN /\ out1.kind = "result"
             /\ out1.z = 0 /\ out1.p_value = PScale /\ out1.lift = 0
             /\ out1.ci_low < 0 /\ out1.ci_high > 0
             /\ Decision(out1.ci_low, out1.ci_high, out1.p_value) = "ITERATE"
        ELSE out1 = Exception("ZeroDivisionError", 87)

C4_Witness ==
    /\ C4_EqualVariants
    /\ 0 < tab1_conversions_a /\ tab1_conversions_a < tab1_visitors_a
    /\ out1.kind = "result"

Tab1Alternatives ==
    {c \in Conversions \X Conversions :
        /\ c[1] <= tab1_visitors_a /\ c[2] <= tab1_visitors_b
        /\ Tab1With(c[1], c[2]).kind = "result"}

\* C6 as stated
C6_Original ==
    (out1.kind = "result" /\ Tab1Valid) =>
        \A c \in Tab1Alternatives :
            Abs(DeltaTimesVisitors(c[1], c[2]))
              > Abs(DeltaTimesVisitors(tab1_conversions_a, tab1_conversions_b))
            => Tab1With(c[1], c[2]).p_value <= out1.p_value

\* C6 amended: with the visitor counts and the total number of conversions
\* (hence the pooled rate and the standard error) fixed, the two-tailed
\* p_value is non-increasing in |cr_b - cr_a| and the one-tailed p_value is
\* non-increasing in cr_b - cr_a
C6_MonotoneAtFixedPooledRate ==
    (out1.kind = "result" /\ Tab1Valid) =>
        \A c \in Tab1Alternatives :
            LET d1 == DeltaTimesVisitors(tab1_conversions_a, tab1_conversions_b)
                d2 == DeltaTimesVisitors(c[1], c[2])
            IN  ( /\ c[1] + c[2] = tab1_conversions_a + tab1_conversions_b
                  /\ IF test_type = "Two-tailed" THEN Abs(d2) > Abs(d1)
                     ELSE d2 > d1 )
                => Tab1With(c[1], c[2]).p_value <= out1.p_value

C6_Witness ==
    /\ out1.kind = "result" /\ Tab1Valid
    /\ test_type = "Two-tailed"
    /\ \E c \in Tab1Alternatives :
          /\ c[1] + c[2] = tab1_conversions_a + tab1_conversions_b
          /\ Abs(DeltaTimesVisitors(c[1], c[2]))
               > Abs(DeltaTimesVisitors(tab1_conversions_a, tab1_conversions_b))
          /\ DeltaTimesVisitors(c[1], c[2]) < 0
          /\ Tab1With(c[1], c[2]).p_value < out1.p_value

(***************************************************************************)
(* C7.  For every input of the declared domain the sample size calculator  *)
(* returns an integer >= 1, also when p2 or pooled exceeds 1.              *)
(***************************************************************************)
C7_PositiveSampleSize ==
    (out3.kind # "none" /\ Tab3Valid) => (out3.kind = "result" /\ out3.n >= 1)

(***************************************************************************)
(* C8.  With baseline, confidence and power fixed, a larger mde gives a    *)
(* strictly smaller required_n_per_variant.                                *)
(***************************************************************************)

\* the larger mde values of the declared domain
LargerMdes == {m \in Mdes : m > mde /\ m <= 100}

C9_IntervalIgnoresTailMode ==
    out1.kind = "result" =>
        LET lift_abs == out1.cr_b - out1.cr_a
            other    == Frequentist(OtherTestType, tab1_visitors_a,
                                    tab1_conversions_a, tab1_visitors_b,
                                    tab1_conversions_b)
        IN  /\ out1.ci_low = lift_abs - TDiv(196 * out1.se, 100)
            /\ out1.ci_high = lift_abs + TDiv(196 * out1.se, 100)
            /\ out1.ci_low <= lift_abs /\ lift_abs <= out1.ci_high
            /\ other.kind = "result"
            /\ other.cr_a = out1.cr_a /\ other.cr_b = out1.cr_b
            /\ other.lift = out1.lift /\ other.z = out1.z
            /\ other.ci_low = out1.ci_low /\ other.ci_high = out1.ci_high

C9_Witness ==
    /\ out1.kind = "result"
    /\ test_type = "One-tailed"
    /\ out1.p_value # PValue("Two-tailed", out1.z)
    /\ out1.ci_low < out1.ci_high

====
